---- MODULE Spec2Model ----
(***************************************************************************)
(* Ray-primitive intersection tests of src/intersections.h:                *)
(* boxIntersectionTest, sphereIntersectionTest, triangleInteractionTest,   *)
(* with getPointOnRay and multiplyMV.                                      *)
(*                                                                         *)
(* Arithmetic.  A float is modelled by the real number it stands for: an   *)
(* exact rational <<n, d>> (d > 0, lowest terms).  Rounding is not         *)
(* modelled.  The IEEE values a division by zero produces are kept:        *)
(* <<1,0>> is +infinity, <<-1,0>> is -infinity, <<0,0>> is NaN.  The       *)
(* sentinels 1e38f and -1e38f are <<2,0>> and <<-2,0>>: larger (smaller)   *)
(* than every finite value of the bounded inputs, inside the infinities.   *)
(* A square root is taken only where it is rational; the inputs are drawn  *)
(* so that every root the code takes on them is.                           *)
(*                                                                         *)
(* The arithmetic is written as functions (Add[x, y]) and intermediate     *)
(* results are bound with Bind, so that every operand is evaluated once.   *)
(***************************************************************************)
EXTENDS Integers, Sequences, FiniteSets, TLC

\* F applied to the value of x
Bind(x, F(_)) == CHOOSE y \in {F(v) : v \in {x}} : TRUE

Q == Int \X Int
V3 == Q \X Q \X Q
Z3 == Int \X Int \X Int

Abs[n \in Int] == IF n < 0 THEN -n ELSE n

GCD[a \in Nat, b \in Nat] == IF b = 0 THEN a ELSE GCD[b, a % b]

LCM[a \in Nat, b \in Nat] == (a \div GCD[a, b]) * b

Rat[n \in Int, d \in Int] ==
    LET g == GCD[Abs[n], Abs[d]]
    IN  IF d < 0 THEN <<(-n) \div g, (-d) \div g>> ELSE <<n \div g, d \div g>>

Zero == <<0, 1>>
One == <<1, 1>>
Half == <<1, 2>>
PInf == <<1, 0>>
NInf == <<-1, 0>>
NaN == <<0, 0>>

IsNaN[x \in Q] == x = NaN

Neg[x \in Q] == <<-x[1], x[2]>>

Add[x \in Q, y \in Q] ==
    LET l == LCM[x[2], y[2]]
    IN  Rat[x[1] * (l \div x[2]) + y[1] * (l \div y[2]), l]

Sub[x \in Q, y \in Q] == Add[x, Neg[y]]

Mul[x \in Q, y \in Q] ==
    LET g1 == GCD[Abs[x[1]], y[2]]
        g2 == GCD[Abs[y[1]], x[2]]
    IN  Rat[(x[1] \div g1) * (y[1] \div g2), (x[2] \div g2) * (y[2] \div g1)]

\* IEEE division of finite operands: x/0 is an infinity of x's sign, 0/0 is NaN.
Div[x \in Q, y \in Q] ==
    IF y[1] = 0
    THEN (IF x[1] = 0 THEN NaN ELSE IF x[1] > 0 THEN PInf ELSE NInf)
    ELSE Mul[x, IF y[1] > 0 THEN <<y[2], y[1]>> ELSE <<-y[2], -y[1]>>]

\* Position of a non-finite value (or sentinel) on the number line; 0 for a finite one.
Cls[x \in Q] == IF x[2] # 0 THEN 0 ELSE IF Abs[x[1]] = 1 THEN 3 * x[1] ELSE x[1]

\* x < y as IEEE compares: false when either side is NaN.
Lt[x \in Q, y \in Q] ==
    IF IsNaN[x] \/ IsNaN[y] THEN FALSE
    ELSE IF Cls[x] # 0 \/ Cls[y] # 0 THEN Cls[x] < Cls[y]
    ELSE LET l == LCM[x[2], y[2]]
         IN  x[1] * (l \div x[2]) < y[1] * (l \div y[2])

Gt[x \in Q, y \in Q] == Lt[y, x]
Le[x \in Q, y \in Q] == ~IsNaN[x] /\ ~IsNaN[y] /\ ~Lt[y, x]
Ge[x \in Q, y \in Q] == Le[y, x]

\* glm::min / glm::max.  On an unordered pair (a NaN operand) the result is
\* one of the operands; which one depends on the library build, so the
\* operand is an input of the model (pick = 1 or 2).
Min[x \in Q, y \in Q, pick \in {1, 2}] ==
    IF IsNaN[x] \/ IsNaN[y] THEN (IF pick = 1 THEN x ELSE y)
    ELSE IF Lt[y, x] THEN y ELSE x

Max[x \in Q, y \in Q, pick \in {1, 2}] ==
    IF IsNaN[x] \/ IsNaN[y] THEN (IF pick = 1 THEN x ELSE y)
    ELSE IF Lt[x, y] THEN y ELSE x

SqrtSearch[n \in Nat, lo \in Nat, hi \in Nat] ==
    IF lo >= hi THEN lo
    ELSE LET mid == (lo + hi + 1) \div 2
         IN  IF mid * mid <= n THEN SqrtSearch[n, mid, hi]
             ELSE SqrtSearch[n, lo, mid - 1]

\* floor of the square root of a natural number
ISqrt[n \in Nat] == SqrtSearch[n, 0, IF n < 46340 THEN n ELSE 46340]

IsSquare[n \in Int] == n >= 0 /\ ISqrt[n] * ISqrt[n] = n

\* a non-negative rational whose square root is rational
HasRatSqrt[x \in Q] == IsSquare[x[1]] /\ IsSquare[x[2]]

\* sqrt of such a rational
Sqrt[x \in Q] == <<ISqrt[x[1]], ISqrt[x[2]]>>

(***************************************************************************)
(* glm::vec3 with rational components, and the glm functions used.         *)
(***************************************************************************)
Vec(a, b, c) == << <<a, 1>>, <<b, 1>>, <<c, 1>> >>

VAdd[u \in V3, v \in V3] == <<Add[u[1], v[1]], Add[u[2], v[2]], Add[u[3], v[3]]>>
VSub[u \in V3, v \in V3] == <<Sub[u[1], v[1]], Sub[u[2], v[2]], Sub[u[3], v[3]]>>
VMul[u \in V3, v \in V3] == <<Mul[u[1], v[1]], Mul[u[2], v[2]], Mul[u[3], v[3]]>>
VScale[k \in Q, v \in V3] == <<Mul[k, v[1]], Mul[k, v[2]], Mul[k, v[3]]>>
Dot[u \in V3, v \in V3] == Add[Add[Mul[u[1], v[1]], Mul[u[2], v[2]]], Mul[u[3], v[3]]]

Cross[u \in V3, v \in V3] ==
    << Sub[Mul[u[2], v[3]], Mul[u[3], v[2]]],
       Sub[Mul[u[3], v[1]], Mul[u[1], v[3]]],
       Sub[Mul[u[1], v[2]], Mul[u[2], v[1]]] >>

IsZeroVec[v \in V3] == v[1][1] = 0 /\ v[2][1] = 0 /\ v[3][1] = 0

\* v = (IntGCD(Scaled(v)) / DenLCM(v)) * Primitive(v): a positive rational
\* times the integer vector along v whose components have no common divisor.
DenLCM[v \in V3] == LCM[LCM[v[1][2], v[2][2]], v[3][2]]

Scaled[v \in V3] ==
    LET l == DenLCM[v]
    IN  <<v[1][1] * (l \div v[1][2]), v[2][1] * (l \div v[2][2]), v[3][1] * (l \div v[3][2])>>

IntGCD[w \in Z3] == GCD[GCD[Abs[w[1]], Abs[w[2]]], Abs[w[3]]]

Reduced[w \in Z3] ==
    LET g == IntGCD[w]
    IN  <<w[1] \div g, w[2] \div g, w[3] \div g>>

Primitive[v \in V3] == Reduced[Scaled[v]]

Norm2[p \in Z3] == p[1] * p[1] + p[2] * p[2] + p[3] * p[3]

\* the length of v is rational
HasLength[v \in V3] == IsZeroVec[v] \/ IsSquare[Norm2[Primitive[v]]]

\* glm::length
Length[v \in V3] ==
    IF IsZeroVec[v] THEN Zero
    ELSE Rat[IntGCD[Scaled[v]] * ISqrt[Norm2[Primitive[v]]], DenLCM[v]]

\* glm::normalize of a non-zero vector of rational length, as numbers
Normalize[v \in V3] == VScale[Div[One, Length[v]], v]

\* glm::normalize where only the direction of the result is used (an output
\* normal): the unit vector v/|v| is represented by the primitive integer
\* vector along v, which determines it.  normalize(0) is the NaN vector,
\* represented by <<0,0,0>> (no unit vector has that representative).
NormalizeDir[v \in V3] == IF IsZeroVec[v] THEN <<0, 0, 0>> ELSE Primitive[v]

IsNaNDir[n \in Z3] == n = <<0, 0, 0>>
NegDir[n \in Z3] == <<-n[1], -n[2], -n[3]>>
DirVec[n \in Z3] == << <<n[1], 1>>, <<n[2], 1>>, <<n[3], 1>> >>

(***************************************************************************)
(* Geom: the transform trio.  The modelled transforms are scalings         *)
(* diag(s,s,s) with no translation: a matrix is its diagonal and its       *)
(* fourth (translation) column.                                            *)
(***************************************************************************)
Mat(s) == [diag |-> <<s, s, s>>, col4 |-> <<Zero, Zero, Zero>>]

MakeGeom(type, s) ==
    [ type |-> type,
      transform |-> Mat(s),
      inverseTransform |-> Mat(Div[One, s]),
      invTranspose |-> Mat(Div[One, s]) ]

\* multiplyMV that drops the matrix: the vector comes back untransformed
multiplyMVNoScale(m, v, w) == VAdd[v, VScale[w, m.col4]]

\* multiplyMV(m, glm::vec4(v, w)): the xyz part of m * (v, w)
multiplyMV(m, v, w) == VAdd[VMul[m.diag, v], VScale[w, m.col4]]

RayBias == <<1, 10000>>

\* getPointOnRay without the bias: the point at exactly t
getPointOnRayNoBias(r, t) == VAdd[r.origin, VScale[t, Normalize[r.direction]]]

getPointOnRay(r, t) == VAdd[r.origin, VScale[Sub[t, RayBias], Normalize[r.direction]]]

MinusOne == <<-1, 1>>
Big == <<2, 0>>
NegBig == <<-2, 0>>

(***************************************************************************)
(* boxIntersectionTest.  out is the caller's (intersectionPoint, normal,   *)
(* outside) at the call; the result holds them at the return, with the     *)
(* returned value and the ray parameter t of the hit.                      *)
(***************************************************************************)
AxisNormal(xyz, sign) ==
    <<IF xyz = 1 THEN sign ELSE 0, IF xyz = 2 THEN sign ELSE 0, IF xyz = 3 THEN sign ELSE 0>>

\* the iteration with the sign of the recorded normal reversed
BoxAxisSameSign(q, xyz, acc, pick) ==
    LET qdxyz == q.direction[xyz]
        t1 == Div[Sub[Neg[Half], q.origin[xyz]], qdxyz]
        t2 == Div[Sub[Half, q.origin[xyz]], qdxyz]
        ta == Min[t1, t2, pick]
        tb == Max[t1, t2, pick]
        n == AxisNormal(xyz, IF Lt[t2, t1] THEN -1 ELSE 1)
    IN  Bind(IF Gt[ta, Zero] /\ Gt[ta, acc.tmin]
             THEN [acc EXCEPT !.tmin = ta, !.tmin_n = n]
             ELSE acc,
             LAMBDA a1 : IF Lt[tb, a1.tmax] THEN [a1 EXCEPT !.tmax = tb, !.tmax_n = n] ELSE a1)

\* one iteration of the loop over xyz (lines 58-76) on the locals acc
BoxAxis(q, xyz, acc, pick) ==
    LET qdxyz == q.direction[xyz]
        t1 == Div[Sub[Neg[Half], q.origin[xyz]], qdxyz]
        t2 == Div[Sub[Half, q.origin[xyz]], qdxyz]
        ta == Min[t1, t2, pick]
        tb == Max[t1, t2, pick]
        n == AxisNormal(xyz, IF Lt[t2, t1] THEN 1 ELSE -1)
    IN  Bind(IF Gt[ta, Zero] /\ Gt[ta, acc.tmin]
             THEN [acc EXCEPT !.tmin = ta, !.tmin_n = n]
             ELSE acc,
             LAMBDA a1 : IF Lt[tb, a1.tmax] THEN [a1 EXCEPT !.tmax = tb, !.tmax_n = n] ELSE a1)

BoxRay(box, r) ==
    [ origin |-> multiplyMV(box.inverseTransform, r.origin, One),
      direction |-> Normalize[multiplyMV(box.inverseTransform, r.direction, Zero)] ]

\* the locals after the loop; tmin_n and tmax_n start as glm::vec3() = 0
BoxLoop(q, pick) ==
    Bind(BoxAxis(q, 1, [tmin |-> NegBig, tmax |-> Big,
                        tmin_n |-> <<0, 0, 0>>, tmax_n |-> <<0, 0, 0>>], pick),
         LAMBDA a1 : Bind(BoxAxis(q, 2, a1, pick), LAMBDA a2 : BoxAxis(q, 3, a2, pick)))

\* lines 78-89 with the exit bound used on every hit
BoxResultExitBound(box, r, out, q, l) ==
    IF Ge[l.tmax, l.tmin] /\ Gt[l.tmax, Zero]
    THEN LET inside == Le[l.tmin, Zero]
         IN  Bind(multiplyMV(box.transform, getPointOnRay(q, l.tmax), One),
                  LAMBDA point :
                      [ ret |-> Length[VSub[r.origin, point]],
                        intersectionPoint |-> point,
                        normal |-> NormalizeDir[multiplyMV(box.invTranspose, DirVec[l.tmax_n], Zero)],
                        outside |-> ~inside,
                        t |-> l.tmax ])
    ELSE [ ret |-> MinusOne,
           intersectionPoint |-> out.intersectionPoint,
           normal |-> out.normal,
           outside |-> out.outside,
           t |-> MinusOne ]

\* lines 78-89, on the object-space ray q and the locals l after the loop
BoxResult(box, r, out, q, l) ==
    IF Ge[l.tmax, l.tmin] /\ Gt[l.tmax, Zero]
    THEN LET inside == Le[l.tmin, Zero]
             tmin == IF inside THEN l.tmax ELSE l.tmin
             tmin_n == IF inside THEN l.tmax_n ELSE l.tmin_n
         IN  Bind(multiplyMV(box.transform, getPointOnRay(q, tmin), One),
                  LAMBDA point :
                      [ ret |-> Length[VSub[r.origin, point]],
                        intersectionPoint |-> point,
                        normal |-> NormalizeDir[multiplyMV(box.invTranspose, DirVec[tmin_n], Zero)],
                        outside |-> ~inside,
                        t |-> tmin ])
    ELSE [ ret |-> MinusOne,
           intersectionPoint |-> out.intersectionPoint,
           normal |-> out.normal,
           outside |-> out.outside,
           t |-> MinusOne ]

boxIntersectionTest(box, r, out, pick) ==
    Bind(BoxRay(box, r),
         LAMBDA q : Bind(BoxLoop(q, pick), LAMBDA l : BoxResult(box, r, out, q, l)))

(***************************************************************************)
(* sphereIntersectionTest                                                  *)
(***************************************************************************)
SphereRay(sphere, r) ==
    [ origin |-> multiplyMV(sphere.inverseTransform, r.origin, One),
      direction |-> Normalize[multiplyMV(sphere.inverseTransform, r.direction, Zero)] ]

\* lines 113-114, on the object-space ray rt
Radicand(rt) ==
    Bind(Dot[rt.origin, rt.direction],
         LAMBDA vDotDirection :
             Sub[Mul[vDotDirection, vDotDirection],
                 Sub[Dot[rt.origin, rt.origin], Mul[Half, Half]]])

SphereMiss(out) ==
    [ ret |-> MinusOne,
      intersectionPoint |-> out.intersectionPoint,
      normal |-> out.normal,
      outside |-> out.outside,
      t |-> MinusOne ]

\* lines 124-143 with the far root taken in both branches
SphereResultFarRoot(sphere, r, out, rt, t1, t2) ==
    IF Lt[t1, Zero] /\ Lt[t2, Zero] THEN SphereMiss(out)
    ELSE LET outside == Gt[t1, Zero] /\ Gt[t2, Zero]
             t == Max[t1, t2, 1]
         IN  Bind(getPointOnRay(rt, t),
                  LAMBDA objspaceIntersection :
                  Bind(multiplyMV(sphere.transform, objspaceIntersection, One),
                  LAMBDA point :
                  Bind(NormalizeDir[multiplyMV(sphere.invTranspose, objspaceIntersection, Zero)],
                  LAMBDA n :
                      [ ret |-> Length[VSub[r.origin, point]],
                        intersectionPoint |-> point,
                        normal |-> IF ~outside THEN NegDir[n] ELSE n,
                        outside |-> outside,
                        t |-> t ])))

\* lines 124-143, on the roots t1 and t2
SphereResult(sphere, r, out, rt, t1, t2) ==
    IF Lt[t1, Zero] /\ Lt[t2, Zero] THEN SphereMiss(out)
    ELSE LET outside == Gt[t1, Zero] /\ Gt[t2, Zero]
             t == IF outside THEN Min[t1, t2, 1] ELSE Max[t1, t2, 1]
         IN  Bind(getPointOnRay(rt, t),
                  LAMBDA objspaceIntersection :
                  Bind(multiplyMV(sphere.transform, objspaceIntersection, One),
                  LAMBDA point :
                  Bind(NormalizeDir[multiplyMV(sphere.invTranspose, objspaceIntersection, Zero)],
                  LAMBDA n :
                      [ ret |-> Length[VSub[r.origin, point]],
                        intersectionPoint |-> point,
                        normal |-> IF ~outside THEN NegDir[n] ELSE n,
                        outside |-> outside,
                        t |-> t ])))

\* lines 115-122 with outside cleared before the tests
SphereRootsClearsFlag(sphere, r, out, rt, radicand) ==
    Bind([out EXCEPT !.outside = FALSE],
         LAMBDA o :
             IF Lt[radicand, Zero] THEN SphereMiss(o)
             ELSE LET squareRoot == Sqrt[radicand]
                      firstTerm == Neg[Dot[rt.origin, rt.direction]]
                  IN  Bind(<<Add[firstTerm, squareRoot], Sub[firstTerm, squareRoot]>>,
                           LAMBDA tt : SphereResult(sphere, r, o, rt, tt[1], tt[2])))

\* lines 115-122, on the radicand
SphereRoots(sphere, r, out, rt, radicand) ==
    IF Lt[radicand, Zero] THEN SphereMiss(out)
    ELSE LET squareRoot == Sqrt[radicand]
             firstTerm == Neg[Dot[rt.origin, rt.direction]]
         IN  Bind(<<Add[firstTerm, squareRoot], Sub[firstTerm, squareRoot]>>,
                  LAMBDA tt : SphereResult(sphere, r, out, rt, tt[1], tt[2]))

sphereIntersectionTest(sphere, r, out) ==
    Bind(SphereRay(sphere, r),
         LAMBDA rt : Bind(Radicand(rt),
                          LAMBDA radicand : SphereRoots(sphere, r, out, rt, radicand)))

(***************************************************************************)
(* glm::intersectRayTriangle(orig, dir, v0, v1, v2, baryPosition) of the   *)
(* glm/gtx/intersect.hpp the code includes (the overload with a vec3       *)
(* baryPosition).  Releases of the library differ in the first test:       *)
(* either a triangle seen from behind (a < epsilon) is rejected, or only a *)
(* ray parallel to the triangle (-epsilon < a < epsilon); cull is TRUE     *)
(* for the first.                                                          *)
(***************************************************************************)
FltEpsilon == <<1, 8388608>>

TriangleMiss == [hit |-> FALSE, x |-> Zero, y |-> Zero, z |-> Zero]

\* the tests on baryPosition, given a = dot(e1, p), s, p and q
BaryTests(dir, e1, e2, a, s, p, q) ==
    LET f == Div[One, a]
        x == Mul[f, Dot[s, p]]
        y == Mul[f, Dot[dir, q]]
        z == Mul[f, Dot[e2, q]]
    IN  IF Lt[x, Zero] \/ Gt[x, One] THEN TriangleMiss
        ELSE IF Lt[y, Zero] \/ Gt[Add[y, x], One] THEN TriangleMiss
        ELSE [hit |-> Ge[z, Zero], x |-> x, y |-> y, z |-> z]

intersectRayTriangle(orig, dir, v0, v1, v2, cull) ==
    Bind(<<VSub[v1, v0], VSub[v2, v0], VSub[orig, v0]>>,
         LAMBDA e : Bind(<<Cross[dir, e[2]], Cross[e[3], e[1]]>>,
         LAMBDA pq : Bind(Dot[e[1], pq[1]],
         LAMBDA a : IF Lt[a, FltEpsilon] /\ (cull \/ Gt[a, Neg[FltEpsilon]])
                    THEN TriangleMiss
                    ELSE BaryTests(dir, e[1], e[2], a, e[3], pq[1], pq[2]))))

(***************************************************************************)
(* triangleInteractionTest.  tri holds vertex1..3 and normal1..3.          *)
(***************************************************************************)
\* v * a / b, as the code evaluates n0 * S0 / S
VMulDiv[v \in V3, a \in Q, b \in Q] ==
    <<Div[Mul[v[1], a], b], Div[Mul[v[2], a], b], Div[Mul[v[3], a], b]>>

\* line 166
BaryPosition(tri, bary) ==
    VAdd[VAdd[VScale[Sub[Sub[One, bary.x], bary.y], tri.vertex1],
              VScale[bary.x, tri.vertex2]],
         VScale[bary.y, tri.vertex3]]

\* line 174
HasNormal(tri) ==
    Length[tri.normal1] # Zero /\ Length[tri.normal2] # Zero /\ Length[tri.normal3] # Zero

\* lines 176-178: <<n0, n1, n2>>
CornerNormals(tri) ==
    IF HasNormal(tri) THEN <<tri.normal1, tri.normal2, tri.normal3>>
    ELSE << Normalize[Cross[VSub[tri.vertex2, tri.vertex1], VSub[tri.vertex3, tri.vertex1]]],
            Normalize[Cross[VSub[tri.vertex1, tri.vertex2], VSub[tri.vertex3, tri.vertex2]]],
            Normalize[Cross[VSub[tri.vertex1, tri.vertex3], VSub[tri.vertex2, tri.vertex3]]] >>

\* lines 181-184 with S1 and S2 exchanged
AreasExchanged(tri, bary_position) ==
    << Mul[Half, Length[Cross[VSub[tri.vertex1, tri.vertex2], VSub[tri.vertex3, tri.vertex2]]]],
       Mul[Half, Length[Cross[VSub[tri.vertex2, bary_position], VSub[tri.vertex3, bary_position]]]],
       Mul[Half, Length[Cross[VSub[tri.vertex1, bary_position], VSub[tri.vertex2, bary_position]]]],
       Mul[Half, Length[Cross[VSub[tri.vertex1, bary_position], VSub[tri.vertex3, bary_position]]]] >>

\* lines 181-184: <<S, S0, S1, S2>> for the hit at bary_position
Areas(tri, bary_position) ==
    << Mul[Half, Length[Cross[VSub[tri.vertex1, tri.vertex2], VSub[tri.vertex3, tri.vertex2]]]],
       Mul[Half, Length[Cross[VSub[tri.vertex2, bary_position], VSub[tri.vertex3, bary_position]]]],
       Mul[Half, Length[Cross[VSub[tri.vertex1, bary_position], VSub[tri.vertex3, bary_position]]]],
       Mul[Half, Length[Cross[VSub[tri.vertex1, bary_position], VSub[tri.vertex2, bary_position]]]] >>

\* line 185
SmoothNormal(n, S) ==
    NormalizeDir[VAdd[VAdd[VMulDiv[n[1], S[2], S[1]], VMulDiv[n[2], S[3], S[1]]],
                      VMulDiv[n[3], S[4], S[1]]]]

\* the locals of lines 166-185 for the hit at barycentric coordinates bary
TriangleLocals(tri, bary) ==
    Bind(BaryPosition(tri, bary),
         LAMBDA bary_position : Bind(Areas(tri, bary_position),
         LAMBDA S : Bind(CornerNormals(tri),
         LAMBDA n :
             [ bary_position |-> bary_position,
               has_normal |-> HasNormal(tri),
               w0 |-> Div[S[2], S[1]], w1 |-> Div[S[3], S[1]], w2 |-> Div[S[4], S[1]],
               smoothNormal |-> SmoothNormal(n, S) ])))

NoLocals ==
    [ bary_position |-> <<Zero, Zero, Zero>>, has_normal |-> FALSE,
      w0 |-> Zero, w1 |-> Zero, w2 |-> Zero, smoothNormal |-> <<0, 0, 0>> ]

\* lines 162-194, on the outcome of intersectRayTriangle
TriangleResult(mesh, r, tri, out, bary_coords) ==
    IF ~bary_coords.hit
    THEN [ ret |-> MinusOne,
           intersectionPoint |-> out.intersectionPoint,
           normal |-> out.normal,
           outside |-> out.outside,
           t |-> MinusOne,
           loc |-> NoLocals ]
    ELSE Bind(TriangleLocals(tri, bary_coords),
         LAMBDA loc : Bind(multiplyMV(mesh.transform, loc.bary_position, One),
         LAMBDA point : Bind(NormalizeDir[multiplyMV(mesh.invTranspose, DirVec[loc.smoothNormal], Zero)],
         LAMBDA n : Bind(Gt[Dot[DirVec[n], r.direction], Zero],
         LAMBDA flip :
             [ ret |-> Length[VSub[r.origin, point]],
               intersectionPoint |-> point,
               normal |-> IF flip THEN NegDir[n] ELSE n,
               outside |-> IF flip THEN FALSE ELSE out.outside,
               t |-> bary_coords.z,
               loc |-> loc ]))))

triangleInteractionTest(mesh, r, tri, out, cull) ==
    Bind([ origin |-> multiplyMV(mesh.inverseTransform, r.origin, One),
           direction |-> Normalize[multiplyMV(mesh.inverseTransform, r.direction, Zero)] ],
         LAMBDA rt : Bind(intersectRayTriangle(rt.origin, rt.direction,
                                               tri.vertex1, tri.vertex2, tri.vertex3, cull),
         LAMBDA bary_coords : TriangleResult(mesh, r, tri, out, bary_coords)))

(***************************************************************************)
(* The inputs.  A ray is drawn in object space (origin on a small grid     *)
(* that holds points outside, on and inside the unit shapes; direction an  *)
(* integer vector of integer length, not normalized) and carried to world  *)
(* space by the primitive's scale.                                         *)
(***************************************************************************)
Far == 2
MaxScale == 2

Coords == {<<-Far, 1>>, <<-1, 2>>, Zero, <<3, 10>>, Half}

Origins(type) ==
    {<<x, y, z>> : x \in Coords, y \in Coords,
                   z \in IF type = "MESH" THEN {<<-Far, 1>>, Half} ELSE Coords}

Directions(type) ==
    { Vec(0, 0, 1), Vec(0, 0, -1), Vec(1, 0, 0), Vec(0, -3, 4), Vec(4, 0, -3), Vec(-2, -2, 1) }
    \cup IF type = "MESH" THEN {}
         ELSE { Vec(-1, 0, 0), Vec(0, 1, 0), Vec(0, -2, 0), Vec(3, 4, 0) }

Scales == {<<k, 1>> : k \in 1..MaxScale} \cup {<<1, k>> : k \in 1..MaxScale}

Types == {"CUBE", "SPHERE", "MESH"}

NoNormal == Vec(0, 0, 0)

\* vertex positions in the plane z = 0, clockwise seen from +z
Vertices ==
    { << << <<-1, 2>>, <<-1, 2>>, Zero >>, << <<-1, 2>>, Half, Zero >>, << Half, <<-1, 2>>, Zero >> >>,
      << << <<-1, 2>>, <<-1, 2>>, Zero >>, << <<-1, 2>>, <<3, 2>>, Zero >>, << <<3, 2>>, <<-1, 2>>, Zero >> >> }

\* vertex normals: none, three different ones (not of unit length) on the
\* -z side, three on the +z side
VertexNormals ==
    { <<NoNormal, NoNormal, NoNormal>>,
      <<Vec(0, 0, -2), Vec(0, 3, -4), Vec(1, 2, -2)>>,
      <<Vec(0, 0, 1), Vec(0, -3, 4), Vec(-2, -1, 2)>> }

Triangles ==
    { [ vertex1 |-> v[1], vertex2 |-> v[2], vertex3 |-> v[3],
        normal1 |-> n[1], normal2 |-> n[2], normal3 |-> n[3] ] :
      v \in Vertices, n \in VertexNormals }

NoTriangle ==
    [ vertex1 |-> NoNormal, vertex2 |-> NoNormal, vertex3 |-> NoNormal,
      normal1 |-> NoNormal, normal2 |-> NoNormal, normal3 |-> NoNormal ]

\* the caller's output variables before the call
CallerPoint == Vec(9, 9, 9)
CallerNormal == <<1, 1, 1>>

\* the box test divides 0 by 0 on an axis: the object-space origin o lies on
\* a face plane and the direction d has no component along that axis
Unordered(o, d) == \E i \in 1..3 : d[i][1] = 0 /\ o[i] \in {Half, <<-1, 2>>}

\* every square root the sphere test takes on the ray is rational
Representable(ray) ==
    Bind(Radicand(SphereRay(MakeGeom("SPHERE", One), ray)),
         LAMBDA radicand : Lt[radicand, Zero] \/ HasRatSqrt[radicand])

\* the rays of a primitive of the given type and scale, with the operand
\* glm::min and glm::max return on an unordered pair
Inputs(type, s) ==
    { [ r |-> [origin |-> VScale[s, o], direction |-> d], pick |-> p ] :
      o \in Origins(type), d \in Directions(type), p \in {1, 2} }

Admitted(type, s) ==
    { in \in Inputs(type, s) :
        LET o == VScale[Div[One, s], in.r.origin]
        IN  /\ in.pick = 2 => type = "CUBE" /\ Unordered(o, in.r.direction)
            /\ type = "SPHERE" => Representable([origin |-> o, direction |-> in.r.direction]) }

VARIABLES geom, r, tri, cull, pick, pre, pc, intersectionPoint, normal, outside, ret, loc

vars == <<geom, r, tri, cull, pick, pre, pc, intersectionPoint, normal, outside, ret, loc>>

Init ==
    /\ \E type \in Types, s \in Scales :
          /\ geom = MakeGeom(type, s)
          /\ \E in \in Admitted(type, s) : r = in.r /\ pick = in.pick
    /\ tri \in IF geom.type = "MESH" THEN Triangles ELSE {NoTriangle}
    /\ cull \in IF geom.type = "MESH" THEN BOOLEAN ELSE {FALSE}
    /\ intersectionPoint = CallerPoint
    /\ normal = CallerNormal
    /\ outside \in BOOLEAN
    /\ pre = [intersectionPoint |-> intersectionPoint, normal |-> normal, outside |-> outside]
    /\ pc = "ready"
    /\ ret = Zero
    /\ loc = [t |-> Zero, tri |-> NoLocals]

Return(res, l) ==
    /\ pre' = [intersectionPoint |-> intersectionPoint, normal |-> normal, outside |-> outside]
    /\ intersectionPoint' = res.intersectionPoint
    /\ normal' = res.normal
    /\ outside' = res.outside
    /\ ret' = res.ret
    /\ loc' = l
    /\ pc' = "done"
    /\ UNCHANGED <<geom, r, tri, cull, pick>>

BoxCall ==
    /\ pc = "ready"
    /\ geom.type = "CUBE"
    /\ \E res \in {boxIntersectionTest(geom, r,
                      [intersectionPoint |-> intersectionPoint, normal |-> normal,
                       outside |-> outside], pick)} :
           Return(res, [t |-> res.t, tri |-> NoLocals])

SphereCall ==
    /\ pc = "ready"
    /\ geom.type = "SPHERE"
    /\ \E res \in {sphereIntersectionTest(geom, r,
                      [intersectionPoint |-> intersectionPoint, normal |-> normal,
                       outside |-> outside])} :
           Return(res, [t |-> res.t, tri |-> NoLocals])

TriangleCall ==
    /\ pc = "ready"
    /\ geom.type = "MESH"
    /\ \E res \in {triangleInteractionTest(geom, r, tri,
                      [intersectionPoint |-> intersectionPoint, normal |-> normal,
                       outside |-> outside], cull)} :
           Return(res, [t |-> res.t, tri |-> res.loc])

Next == BoxCall \/ SphereCall \/ TriangleCall

Spec == Init /\ [][Next]_vars

(***************************************************************************)
(* Properties.                                                             *)
(***************************************************************************)
Done == pc = "done"
Hit == Done /\ ret # MinusOne
Miss == Done /\ ret = MinusOne

\* the scale of the primitive, and the ray in object space before normalize
Scale == geom.transform.diag[1]
ObjOrigin == VScale[Div[One, Scale], r.origin]
IsIdentity == Scale = One

\* the call of the state, made again with the caller's outputs set to out
CallWith(out) ==
    CASE geom.type = "CUBE" -> boxIntersectionTest(geom, r, out, pick)
      [] geom.type = "SPHERE" -> sphereIntersectionTest(geom, r, out)
      [] OTHER -> triangleInteractionTest(geom, r, tri, out, cull)

AxisAligned(d) == Cardinality({i \in 1..3 : d[i][1] # 0}) = 1

StrictlyInsideBox(o) == \A i \in 1..3 : Lt[<<-1, 2>>, o[i]] /\ Lt[o[i], Half]

(* C1: a call of any of the three tests that returns -1 leaves the caller's  *)
(* intersectionPoint, normal and outside as they were before the call.       *)
C1_MissLeavesOutputs ==
    Miss => /\ intersectionPoint = pre.intersectionPoint
            /\ normal = pre.normal
            /\ outside = pre.outside

\* the sphere test misses on its second test (both roots negative), with
\* the caller's flag set
C1_Witness ==
    /\ Miss
    /\ geom.type = "SPHERE"
    /\ Ge[Radicand(SphereRay(geom, r)), Zero]
    /\ pre.outside

(* C2: whenever a test reports a hit, the normal it writes satisfies         *)
(* dot(normal, r.direction) <= 0 (a NaN normal does not).                    *)
C2_NormalFacesRay ==
    Hit => ~IsNaNDir[normal] /\ Le[Dot[DirVec[normal], r.direction], Zero]

(* C3: whenever a test reports a hit, the call has assigned the hit point,   *)
(* the normal and the outside flag: what the caller held before the call     *)
(* does not show in any of them (the same call made with other values in     *)
(* the caller's variables leaves the same outputs).                          *)
C3_HitAssignsOutputs ==
    Hit => Bind(CallWith([intersectionPoint |-> Vec(7, 7, 7), normal |-> <<0, 1, 0>>,
                          outside |-> ~pre.outside]),
                LAMBDA other : /\ other.intersectionPoint = intersectionPoint
                               /\ other.normal = normal
                               /\ other.outside = outside)

(* C4 as claimed: for the unit box at the identity transform and a ray       *)
(* whose origin is inside the box and whose direction is axis-aligned, the   *)
(* test reports outside = false and the normal is the axis unit vector with  *)
(* the same sign as the ray direction.                                       *)
C4_ExitFaceNormal ==
    Done /\ geom.type = "CUBE" /\ IsIdentity /\ StrictlyInsideBox(r.origin)
         /\ AxisAligned(r.direction)
    => Hit /\ ~outside /\ normal = NormalizeDir[r.direction]

(* C4 as amended: in that case the test reports a hit, outside = false, and  *)
(* the normal is the axis unit vector with the sign opposite to the ray      *)
(* direction: (0,0,-1) for origin (0,0,0) and direction (0,0,1).             *)
C4_NormalAgainstRay ==
    Done /\ geom.type = "CUBE" /\ IsIdentity /\ StrictlyInsideBox(r.origin)
         /\ AxisAligned(r.direction)
    => Hit /\ ~outside /\ normal = NegDir[NormalizeDir[r.direction]]

C4_Witness ==
    /\ Hit /\ geom.type = "CUBE" /\ IsIdentity
    /\ r.origin = Vec(0, 0, 0) /\ r.direction = Vec(0, 0, 1)
    /\ ~outside /\ normal = <<0, 0, -1>>

\* the distance from the origin o to the plane of the face of the unit box
\* that the axis-aligned ray (o, d) hits: the entry face when the origin is
\* in front of the box, the exit face otherwise
PlaneDistance(o, d) ==
    LET a == CHOOSE i \in 1..3 : d[i][1] # 0
        along == IF d[a][1] > 0 THEN o[a] ELSE Neg[o[a]]
    IN  IF Lt[along, <<-1, 2>>] THEN Sub[<<-1, 2>>, along] ELSE Sub[Half, along]

AbsQ(x) == IF x[1] < 0 THEN Neg[x] ELSE x

C6_UniformScale ==
    Done /\ geom.type \in {"CUBE", "SPHERE"} /\ ~IsIdentity
    => Bind(IF geom.type = "CUBE"
            THEN boxIntersectionTest(MakeGeom("CUBE", One),
                                     [origin |-> ObjOrigin, direction |-> r.direction], pre, pick)
            ELSE sphereIntersectionTest(MakeGeom("SPHERE", One),
                                        [origin |-> ObjOrigin, direction |-> r.direction], pre),
            LAMBDA base : base.ret # MinusOne
                          => /\ ret = Mul[Scale, base.ret]
                             /\ normal = base.normal
                             /\ outside = base.outside)

C6_Witness ==
    /\ Hit /\ geom.type = "SPHERE" /\ Scale = <<2, 1>>
    /\ r.origin = Vec(0, 0, -4) /\ r.direction = Vec(0, 0, 1)
    /\ ret = <<14999, 5000>>

\* a + b + c
Sum3(a, b, c) == Add[Add[a, b], c]

(* C7: for a hit on a triangle whose three supplied normals are non-zero,    *)
(* the area weights S0/S, S1/S, S2/S are the barycentric weights of vertex1, *)
(* vertex2, vertex3 at the hit point (they sum to 1 and combine the vertices *)
(* to the hit point); where the hit point is vertex i the weight of vertex i *)
(* is 1, the others are 0, and the smoothed object-space normal is the       *)
(* normalized normal supplied for vertex i.                                  *)
C7_AreaWeights ==
    Hit /\ geom.type = "MESH" /\ loc.tri.has_normal
    => LET l == loc.tri
           w == <<l.w0, l.w1, l.w2>>
           v == <<tri.vertex1, tri.vertex2, tri.vertex3>>
           n == <<tri.normal1, tri.normal2, tri.normal3>>
       IN  /\ Sum3(w[1], w[2], w[3]) = One
           /\ VAdd[VAdd[VScale[w[1], v[1]], VScale[w[2], v[2]]], VScale[w[3], v[3]]]
              = l.bary_position
           /\ \A i \in 1..3 :
                 l.bary_position = v[i]
                 => /\ \A j \in 1..3 : w[j] = IF j = i THEN One ELSE Zero
                    /\ l.smoothNormal = NormalizeDir[n[i]]

\* the ray hits vertex2 of a triangle with supplied normals
C7_Witness ==
    /\ Hit /\ geom.type = "MESH" /\ loc.tri.has_normal
    /\ loc.tri.bary_position = tri.vertex2
    /\ loc.tri.smoothNormal = NormalizeDir[tri.normal2]

\* the axes of the object-space ray q, and the two plane parameters of an
\* axis along which the ray moves
Moving(q) == {i \in 1..3 : q.direction[i][1] # 0}
Still(q) == {i \in 1..3 : q.direction[i][1] = 0}
NearRef(q, i) ==
    IF q.direction[i][1] > 0 THEN Div[Sub[Neg[Half], q.origin[i]], q.direction[i]]
    ELSE Div[Sub[Half, q.origin[i]], q.direction[i]]
FarRef(q, i) ==
    IF q.direction[i][1] > 0 THEN Div[Sub[Half, q.origin[i]], q.direction[i]]
    ELSE Div[Sub[Neg[Half], q.origin[i]], q.direction[i]]

\* the slab method: an axis without motion excludes every point when the
\* origin is outside its two planes and constrains nothing otherwise
SlabRef(q) ==
    LET tminRef == CHOOSE x \in {NearRef(q, i) : i \in Moving(q)} :
                       \A i \in Moving(q) : Ge[x, NearRef(q, i)]
        tmaxRef == CHOOSE x \in {FarRef(q, i) : i \in Moving(q)} :
                       \A i \in Moving(q) : Le[x, FarRef(q, i)]
    IN  [ tminRef |-> tminRef,
          tmaxRef |-> tmaxRef,
          excluded |-> \E i \in Still(q) : Lt[q.origin[i], Neg[Half]] \/ Gt[q.origin[i], Half],
          entry |-> {AxisNormal(i, IF q.direction[i][1] > 0 THEN -1 ELSE 1) :
                        i \in {j \in Moving(q) : NearRef(q, j) = tminRef}},
          exit |-> {AxisNormal(i, IF q.direction[i][1] > 0 THEN -1 ELSE 1) :
                        i \in {j \in Moving(q) : FarRef(q, j) = tmaxRef}} ]

(* C8: for every ray that does not lie in a face plane's 0/0 case (no axis   *)
(* with a zero direction component and the origin exactly on one of its      *)
(* planes), boxIntersectionTest agrees with the slab method: it returns -1   *)
(* exactly when an axis without motion has the origin outside its planes or  *)
(* not (tmaxRef >= tminRef and tmaxRef > 0); on a hit with tminRef <= 0 it   *)
(* reports outside = false, the exit parameter and the normal recorded for   *)
(* an exit axis; on any other hit it reports outside = true, the entry       *)
(* parameter and the normal recorded for an entry axis.                      *)
C8_SlabMethod ==
    Done /\ geom.type = "CUBE" /\ ~Unordered(ObjOrigin, r.direction)
    => Bind(SlabRef(BoxRay(geom, r)),
            LAMBDA ref :
                /\ Miss <=> (ref.excluded
                             \/ ~(Ge[ref.tmaxRef, ref.tminRef] /\ Gt[ref.tmaxRef, Zero]))
                /\ Hit /\ Le[ref.tminRef, Zero]
                   => ~outside /\ loc.t = ref.tmaxRef /\ normal \in ref.exit
                /\ Hit /\ ~Le[ref.tminRef, Zero]
                   => outside /\ loc.t = ref.tminRef /\ normal \in ref.entry)

\* a ray without motion along x and y starts inside the box and leaves it
\* through the face z = 1/2
C8_Witness ==
    /\ Hit /\ geom.type = "CUBE"
    /\ ObjOrigin = <<<<3, 10>>, Zero, Zero>> /\ r.direction = Vec(0, 0, 1)
    /\ ~outside /\ loc.t = Half /\ normal = <<0, 0, -1>>

(* C9: with b = dot(origin, direction), D = b^2 - (dot(origin, origin) -     *)
(* 1/4), t1 = -b + sqrt(D) and t2 = -b - sqrt(D) on the object-space ray,    *)
(* sphereIntersectionTest returns -1 exactly when D < 0 or both roots are    *)
(* negative; with both roots positive it selects t2 and sets outside; in     *)
(* every other hit it selects t1 and clears outside; the selected t is never *)
(* negative, and outside is set only if the origin is strictly outside the   *)
(* sphere.                                                                   *)
C9_RootClassification ==
    Done /\ geom.type = "SPHERE"
    => LET rt == SphereRay(geom, r)
           b == Dot[rt.origin, rt.direction]
           D == Sub[Mul[b, b], Sub[Dot[rt.origin, rt.origin], <<1, 4>>]]
           t1 == Add[Neg[b], Sqrt[D]]
           t2 == Sub[Neg[b], Sqrt[D]]
       IN  IF Lt[D, Zero] THEN Miss
           ELSE /\ Miss <=> (Lt[t1, Zero] /\ Lt[t2, Zero])
                /\ Hit /\ Gt[t1, Zero] /\ Gt[t2, Zero] => loc.t = t2 /\ Le[t2, t1] /\ outside
                /\ Hit /\ ~(Gt[t1, Zero] /\ Gt[t2, Zero])
                   => loc.t = t1 /\ Ge[t1, t2] /\ ~outside
                /\ Hit => Ge[loc.t, Zero]
                /\ Hit /\ outside => Gt[Dot[rt.origin, rt.origin], <<1, 4>>]

\* the origin is on the sphere and the ray points inward: roots 1 and 0
C9_Witness ==
    /\ Hit /\ geom.type = "SPHERE"
    /\ ObjOrigin = <<Zero, Zero, <<-1, 2>>>> /\ r.direction = Vec(0, 0, 1)
    /\ loc.t = One /\ ~outside

(* C10: for a hit on a triangle with no supplied vertex normals, the         *)
(* smoothed object-space normal computed before the flip is a unit vector    *)
(* (not the normalization of the zero vector), the same as for a hit at      *)
(* vertex1; and, when the caller passed outside = true, the flag is cleared  *)
(* exactly when that one normal has a positive dot product with the ray      *)
(* direction.                                                                *)
C10_FlatNormalConstant ==
    Hit /\ geom.type = "MESH" /\ ~loc.tri.has_normal
    => Bind(TriangleLocals(tri, [x |-> Zero, y |-> Zero]).smoothNormal,
            LAMBDA face :
                /\ ~IsNaNDir[loc.tri.smoothNormal]
                /\ loc.tri.smoothNormal = face
                /\ pre.outside => (~outside <=> Gt[Dot[DirVec[face], r.direction], Zero]))

====
